---------------------------- MODULE Spec2Model ----------------------------
(***************************************************************************)
(* Delta-K cipher encoder.                                                 *)
(*                                                                         *)
(* Two programs are modelled:                                              *)
(*   - the Delta_K library (Delta_K.hpp / Delta_K.cpp): the static         *)
(*     encoder, the additive keyed encoder, the decoder and their helpers; *)
(*   - cipher-encoder.cpp: main(), the keyed-permutation encoder, its key  *)
(*     validator and the keyword alphabet builder.                         *)
(*                                                                         *)
(* The library source holds a second, older copy of encrypt, abcPosition   *)
(* and keyValidation, identical to the first, and a decrypt without a      *)
(* body; the complete first copy is the one modelled.                      *)
(*                                                                         *)
(* A std::string is a sequence of bytes (0..255); a char literal is its    *)
(* ASCII code.  C++ arrays and strings are indexed from 0, TLA+ sequences  *)
(* from 1, so s[i] of the source is s[i + 1] here.                         *)
(***************************************************************************)
EXTENDS Integers, Sequences, FiniteSets

-----------------------------------------------------------------------------
(* Bounds of the model.                                                    *)

MaxPlainLen == 3

MaxKeyLen == 2

MaxCipherUnits == 3

-----------------------------------------------------------------------------
(* Constants of Delta_K.hpp.                                               *)

ALPHABET_LENGTH == 26

BASE == 3

\* The glyphs are the UTF-8 encodings of U+25B2, U+25BC and U+25C6.
GLYPHS == << <<226, 150, 178>>, <<226, 150, 188>>, <<226, 151, 134>> >>

\* The number of bytes of one glyph, used by decrypt.
GLYPH_SIZE == 3

TRIT_ALPHABET ==
    << <<0, 0, 1>>, <<0, 0, 2>>, <<0, 1, 0>>, <<0, 1, 1>>, <<0, 1, 2>>,
       <<0, 2, 0>>, <<0, 2, 1>>, <<0, 2, 2>>, <<1, 0, 0>>, <<1, 0, 1>>,
       <<1, 0, 2>>, <<1, 1, 0>>, <<1, 1, 1>>, <<1, 1, 2>>, <<1, 2, 0>>,
       <<1, 2, 1>>, <<1, 2, 2>>, <<2, 0, 0>>, <<2, 0, 1>>, <<2, 0, 2>>,
       <<2, 1, 0>>, <<2, 1, 1>>, <<2, 1, 2>>, <<2, 2, 0>>, <<2, 2, 1>>,
       <<2, 2, 2>> >>

-----------------------------------------------------------------------------
(* <cctype> and std::string, as the source uses them (ASCII, "C" locale).  *)

isalpha(c) == (c >= 65 /\ c <= 90) \/ (c >= 97 /\ c <= 122)

toupper(c) == IF c >= 97 /\ c <= 122 THEN c - 32 ELSE c

\* s.substr(pos, n) for pos <= s.length(); for pos > s.length() the call
\* throws std::out_of_range (substr_throws).
substr(s, pos, n) ==
    SubSeq(s, pos + 1, IF pos + n < Len(s) THEN pos + n ELSE Len(s))

substr_throws(s, pos) == pos > Len(s)

-----------------------------------------------------------------------------
(* Delta_K library: helpers.                                               *)

abcPosition(abc) ==
    LET abcUpper == toupper(abc)
        asciiVal == abcUpper - 65
    IN  asciiVal

RECURSIVE keyValidation_loop(_, _)
keyValidation_loop(key, i) ==
    IF ~(i < Len(key)) THEN TRUE
    ELSE IF ~isalpha(key[i + 1]) THEN FALSE
    ELSE keyValidation_loop(key, i + 1)

keyValidation(key) ==
    IF key = <<>> THEN FALSE ELSE keyValidation_loop(key, 0)

isGlyph(c) == c = GLYPHS[1] \/ c = GLYPHS[2] \/ c = GLYPHS[3]

glyphVal(c) ==
    IF c = GLYPHS[1] THEN 0
    ELSE IF c = GLYPHS[2] THEN 1
    ELSE IF c = GLYPHS[3] THEN 2
    ELSE -1

RECURSIVE abcSearch_loop(_, _, _, _)
abcSearch_loop(a, b, c, i) ==
    IF ~(i < ALPHABET_LENGTH) THEN -1
    ELSE IF TRIT_ALPHABET[i + 1][1] = a /\ TRIT_ALPHABET[i + 1][2] = b
            /\ TRIT_ALPHABET[i + 1][3] = c
         THEN i
    ELSE abcSearch_loop(a, b, c, i + 1)

\* Mutant of abcSearch: the scan stops one row early (i < ALPHABET_LENGTH - 1).
abcSearch_short(a, b, c) ==
    LET RECURSIVE scan(_)
        scan(i) ==
            IF ~(i < ALPHABET_LENGTH - 1) THEN -1
            ELSE IF TRIT_ALPHABET[i + 1] = <<a, b, c>> THEN i
            ELSE scan(i + 1)
    IN  scan(0)

abcSearch(a, b, c) == abcSearch_loop(a, b, c, 0)

-----------------------------------------------------------------------------
(* Delta_K library: encrypt(plaintext), the static encoder.                *)

RECURSIVE encrypt_glyphs(_, _, _)
encrypt_glyphs(abcValue, j, ciphertext) ==
    IF ~(j < BASE) THEN ciphertext
    ELSE encrypt_glyphs(abcValue, j + 1,
                        ciphertext \o GLYPHS[TRIT_ALPHABET[abcValue + 1][j + 1] + 1])

RECURSIVE encrypt_loop(_, _, _)
encrypt_loop(plaintext, i, ciphertext) ==
    IF ~(i < Len(plaintext)) THEN ciphertext
    ELSE LET currentChar == plaintext[i + 1] IN
         IF isalpha(currentChar)
         THEN encrypt_loop(plaintext, i + 1,
                           encrypt_glyphs(abcPosition(currentChar), 0, ciphertext))
         ELSE IF currentChar = 32
         THEN encrypt_loop(plaintext, i + 1, Append(ciphertext, 47))
         ELSE encrypt_loop(plaintext, i + 1, Append(ciphertext, currentChar))

\* Mutant of encrypt: the branch for ' ' is missing, a space is copied.
encrypt_nospace(plaintext) ==
    LET RECURSIVE go(_, _)
        go(i, ciphertext) ==
            IF ~(i < Len(plaintext)) THEN ciphertext
            ELSE IF isalpha(plaintext[i + 1])
            THEN go(i + 1, encrypt_glyphs(abcPosition(plaintext[i + 1]), 0, ciphertext))
            ELSE go(i + 1, Append(ciphertext, plaintext[i + 1]))
    IN  go(0, <<>>)

encrypt(plaintext) == encrypt_loop(plaintext, 0, <<>>)

-----------------------------------------------------------------------------
(* Delta_K library: encrypt(plaintext, key), the additive keyed encoder.   *)
(* key[keyIndex % key.length()] divides by zero for an empty key and       *)
(* TRIT_ALPHABET[keyAbcVal] is out of bounds for a non-alphabetic key      *)
(* character: the callers pass keys that keyValidation accepts.            *)

RECURSIVE encrypt_key_glyphs(_, _, _, _)
encrypt_key_glyphs(abcVal, keyAbcVal, j, ciphertext) ==
    IF ~(j < BASE) THEN ciphertext
    ELSE LET keyedValue ==
                 (TRIT_ALPHABET[abcVal + 1][j + 1]
                      + TRIT_ALPHABET[keyAbcVal + 1][j + 1]) % 3
         IN  encrypt_key_glyphs(abcVal, keyAbcVal, j + 1,
                                ciphertext \o GLYPHS[keyedValue + 1])

RECURSIVE encrypt_key_loop(_, _, _, _, _)
encrypt_key_loop(plaintext, key, i, keyIndex, ciphertext) ==
    IF ~(i < Len(plaintext)) THEN ciphertext
    ELSE LET currentChar == plaintext[i + 1] IN
         IF isalpha(currentChar)
         THEN LET currentKeyChar == key[(keyIndex % Len(key)) + 1]
                  keyAbcVal == abcPosition(currentKeyChar)
                  abcVal == abcPosition(currentChar)
              IN  encrypt_key_loop(plaintext, key, i + 1, keyIndex + 1,
                      encrypt_key_glyphs(abcVal, keyAbcVal, 0, ciphertext))
         ELSE IF currentChar = 32
         THEN encrypt_key_loop(plaintext, key, i + 1, keyIndex, Append(ciphertext, 47))
         ELSE encrypt_key_loop(plaintext, key, i + 1, keyIndex,
                               Append(ciphertext, currentChar))

\* Mutant of encrypt_key: the key is indexed by the position i of the
\* character in the plaintext, so non-letters advance the key too.
encrypt_key_bypos(plaintext, key) ==
    LET RECURSIVE go(_, _)
        go(i, ciphertext) ==
            IF ~(i < Len(plaintext)) THEN ciphertext
            ELSE IF isalpha(plaintext[i + 1])
            THEN go(i + 1, encrypt_key_glyphs(abcPosition(plaintext[i + 1]),
                               abcPosition(key[(i % Len(key)) + 1]), 0, ciphertext))
            ELSE IF plaintext[i + 1] = 32 THEN go(i + 1, Append(ciphertext, 47))
            ELSE go(i + 1, Append(ciphertext, plaintext[i + 1]))
    IN  go(0, <<>>)

encrypt_key(plaintext, key) == encrypt_key_loop(plaintext, key, 0, 0, <<>>)

-----------------------------------------------------------------------------
(* Delta_K library: decrypt(ciphertext).  The result is a record: thrown   *)
(* says that a substr call threw std::out_of_range (nothing is returned),  *)
(* value is the returned string otherwise.                                 *)

RECURSIVE decrypt_loop(_, _, _)
decrypt_loop(ciphertext, i, plaintext) ==
    IF ~(i < Len(ciphertext)) THEN [thrown |-> FALSE, value |-> plaintext]
    ELSE LET current1 == substr(ciphertext, i, GLYPH_SIZE) IN
         IF ~isGlyph(current1)
         THEN decrypt_loop(ciphertext, i + 1, Append(plaintext, ciphertext[i + 1]))
         ELSE IF substr_throws(ciphertext, i + GLYPH_SIZE)
                 \/ substr_throws(ciphertext, i + (GLYPH_SIZE * 2))
         THEN [thrown |-> TRUE, value |-> <<>>]
         ELSE LET current2 == substr(ciphertext, i + GLYPH_SIZE, GLYPH_SIZE)
                  current3 == substr(ciphertext, i + (GLYPH_SIZE * 2), GLYPH_SIZE)
                  glyphSeq1 == glyphVal(current1)
                  glyphSeq2 == glyphVal(current2)
                  glyphSeq3 == glyphVal(current3)
                  decryptedChar == 65 + abcSearch(glyphSeq1, glyphSeq2, glyphSeq3)
              IN  decrypt_loop(ciphertext, (i + (GLYPH_SIZE * 3) - 1) + 1,
                               Append(plaintext, decryptedChar))

decrypt(ciphertext) == decrypt_loop(ciphertext, 0, <<>>)

-----------------------------------------------------------------------------
(* cipher-encoder.cpp: the keyed-permutation program.                      *)

CIPHER_ALPHABET ==
    LET U == <<226, 150, 178>>
        D == <<226, 150, 188>>
        Q == <<226, 151, 134>>
    IN  << U \o U \o D, U \o U \o Q, U \o D \o U, U \o D \o D, U \o D \o Q,
           U \o Q \o U, U \o Q \o D, U \o Q \o Q,
           D \o U \o U, D \o U \o D, D \o U \o Q, D \o D \o U, D \o D \o D,
           D \o D \o Q, D \o Q \o U, D \o Q \o D, D \o Q \o Q,
           Q \o U \o U, Q \o U \o D, Q \o U \o Q, Q \o D \o U, Q \o D \o D,
           Q \o D \o Q, Q \o Q \o U, Q \o Q \o D, Q \o Q \o Q >>

ce_abcPosition(abc) ==
    LET abcUpper == toupper(abc)
        asciiVal == abcUpper - 65
    IN  asciiVal

RECURSIVE ce_encrypt_loop(_, _, _, _)
ce_encrypt_loop(plaintext, alphabet, i, ciphertext) ==
    IF ~(i < Len(plaintext)) THEN ciphertext
    ELSE IF isalpha(plaintext[i + 1])
    THEN ce_encrypt_loop(plaintext, alphabet, i + 1,
                         ciphertext \o alphabet[ce_abcPosition(plaintext[i + 1]) + 1])
    ELSE ce_encrypt_loop(plaintext, alphabet, i + 1,
                         Append(ciphertext, plaintext[i + 1]))

\* Mutant of ce_encrypt: a space is written as '/', as the library's
\* encoders write it.
ce_encrypt_slash(plaintext, alphabet) ==
    LET RECURSIVE go(_, _)
        go(i, ciphertext) ==
            IF ~(i < Len(plaintext)) THEN ciphertext
            ELSE IF isalpha(plaintext[i + 1])
            THEN go(i + 1, ciphertext \o alphabet[ce_abcPosition(plaintext[i + 1]) + 1])
            ELSE IF plaintext[i + 1] = 32 THEN go(i + 1, Append(ciphertext, 47))
            ELSE go(i + 1, Append(ciphertext, plaintext[i + 1]))
    IN  go(0, <<>>)

ce_encrypt(plaintext, alphabet) == ce_encrypt_loop(plaintext, alphabet, 0, <<>>)

\* The loop of keyValidation: FALSE at the first non-alphabetic character,
\* and the uppercased key otherwise.
RECURSIVE ce_keyValidation_loop(_, _, _)
ce_keyValidation_loop(key, i, upperKey) ==
    IF ~(i < Len(key)) THEN [returned |-> FALSE, upperKey |-> upperKey]
    ELSE IF ~isalpha(key[i + 1]) THEN [returned |-> TRUE, upperKey |-> upperKey]
    ELSE ce_keyValidation_loop(key, i + 1, Append(upperKey, toupper(key[i + 1])))

ce_keyValidation(key) ==
    LET r == ce_keyValidation_loop(key, 0, <<>>) IN
    IF r.returned THEN FALSE
    ELSE LET upperKey == r.upperKey
             chars == {upperKey[n] : n \in 1..Len(upperKey)}
         IN  Cardinality(chars) = Len(upperKey)

RECURSIVE alphabetWithKey_upper(_, _, _)
alphabetWithKey_upper(key, i, keyedAlphabet) ==
    IF ~(i < Len(key)) THEN keyedAlphabet
    ELSE alphabetWithKey_upper(key, i + 1, Append(keyedAlphabet, toupper(key[i + 1])))

\* The inner loop: erase the first alphabet[j] equal to ch, then break.
RECURSIVE alphabetWithKey_erase(_, _, _)
alphabetWithKey_erase(alphabet, j, ch) ==
    IF ~(j < Len(alphabet)) THEN alphabet
    ELSE IF alphabet[j + 1] = ch
    THEN SubSeq(alphabet, 1, j) \o SubSeq(alphabet, j + 2, Len(alphabet))
    ELSE alphabetWithKey_erase(alphabet, j + 1, ch)

RECURSIVE alphabetWithKey_strip(_, _, _)
alphabetWithKey_strip(keyedAlphabet, i, alphabet) ==
    IF ~(i < Len(keyedAlphabet)) THEN alphabet
    ELSE alphabetWithKey_strip(keyedAlphabet, i + 1,
                               alphabetWithKey_erase(alphabet, 0, keyedAlphabet[i + 1]))

\* Mutant of alphabetWithKey: the erase is missing, the whole alphabet is
\* appended to the keyword.
alphabetWithKey_noerase(key) ==
    alphabetWithKey_upper(key, 0, <<>>) \o [n \in 1..26 |-> 64 + n]

\* Mutant of alphabetWithKey: a keyword letter is appended only when it is
\* still found in the working alphabet, so repeated letters are skipped.
alphabetWithKey_dedup(key) ==
    LET RECURSIVE go(_, _, _)
        go(i, keyedAlphabet, alphabet) ==
            IF ~(i < Len(key)) THEN keyedAlphabet \o alphabet
            ELSE LET ch == toupper(key[i + 1])
                     left == alphabetWithKey_erase(alphabet, 0, ch)
                 IN  IF left = alphabet THEN go(i + 1, keyedAlphabet, alphabet)
                     ELSE go(i + 1, Append(keyedAlphabet, ch), left)
    IN  go(0, <<>>, [n \in 1..26 |-> 64 + n])

alphabetWithKey(key) ==
    LET alphabet == [n \in 1..26 |-> 64 + n]
        keyedAlphabet == alphabetWithKey_upper(key, 0, <<>>)
    IN  keyedAlphabet \o alphabetWithKey_strip(keyedAlphabet, 0, alphabet)

RECURSIVE keyedCipherAlphabet_loop(_, _, _)
keyedCipherAlphabet_loop(keyedAlphabet, output, i) ==
    IF ~(i < ALPHABET_LENGTH) THEN output
    ELSE LET index == keyedAlphabet[i + 1] - 65 IN
         keyedCipherAlphabet_loop(keyedAlphabet,
             [output EXCEPT ![index + 1] = CIPHER_ALPHABET[i + 1]], i + 1)

\* Mutant of keyedCipherAlphabet: the two indices are exchanged,
\* output[i] = CIPHER_ALPHABET[index].
keyedCipherAlphabet_swapped(keyedAlphabet, output) ==
    LET RECURSIVE go(_, _)
        go(out, i) ==
            IF ~(i < ALPHABET_LENGTH) THEN out
            ELSE go([out EXCEPT ![i + 1] = CIPHER_ALPHABET[keyedAlphabet[i + 1] - 65 + 1]],
                    i + 1)
    IN  go(output, 0)

keyedCipherAlphabet(keyedAlphabet, output) ==
    keyedCipherAlphabet_loop(keyedAlphabet, output, 0)

-----------------------------------------------------------------------------
(* The inputs.                                                             *)

Strings(S, n) == UNION {[1..m -> S] : m \in 0..n}

RECURSIVE Concat(_)
Concat(ss) == IF ss = <<>> THEN <<>> ELSE Head(ss) \o Concat(Tail(ss))

\* "HI THERE", "HI", "AAAA", "Zz"
HI_THERE == <<72, 73, 32, 84, 72, 69, 82, 69>>
HI == <<72, 73>>
AAAA == <<65, 65, 65, 65>>
Zz == <<90, 122>>

\* 'A', 'b', ' ', '1': ASCII only (isalpha of a negative char is undefined,
\* and the glyph bytes are reserved).
PlainChars == {65, 98, 32, 49}

Plaintexts == Strings(PlainChars, MaxPlainLen) \cup {HI_THERE, HI, AAAA, Zz}

\* "0", "BC", "aabb", "a1b", "aA", and A..Z followed by A (27 letters)
Zero == <<48>>
BC == <<66, 67>>
aabb == <<97, 97, 98, 98>>
a1b == <<97, 49, 98>>
aA == <<97, 65>>
Long27 == [n \in 1..27 |-> IF n <= 26 THEN 64 + n ELSE 65]

\* 'a', 'B', 'c', '1'
KeyChars == {97, 66, 99, 49}

Keys == Strings(KeyChars, MaxKeyLen) \cup {Zero, BC, aabb, a1b, aA, Long27}

\* What a decoder may be handed: glyphs, '/', 'A' and a lone first byte of
\* a glyph, in any order.
CipherUnits == {GLYPHS[1], GLYPHS[2], GLYPHS[3], <<47>>, <<65>>, <<226>>}

Ciphertexts == {Concat(u) : u \in Strings(CipherUnits, MaxCipherUnits)}

\* glyphVal's range, the arguments decrypt passes to abcSearch.
TritArgs == {-1, 0, 1, 2}

-----------------------------------------------------------------------------
(* The state: the strings a caller holds.  pc is "start" before anything   *)
(* ran, the name of the library function that was called, or main()'s      *)
(* position ("prompt": in the do-while, about to read a key; "exit").      *)

VARIABLES pc, plaintext, key, ciphertext, decoded, valid, keyedAlphabet,
          keyedCipher, trits, found

vars == <<pc, plaintext, key, ciphertext, decoded, valid, keyedAlphabet,
          keyedCipher, trits, found>>

\* std::string keyedCipher[26]: 26 empty strings.
EmptyTable == [n \in 1..26 |-> <<>>]

Init ==
    /\ pc = "start"
    /\ plaintext = <<>>
    /\ key = <<>>
    /\ ciphertext = <<>>
    /\ decoded = [thrown |-> FALSE, value |-> <<>>]
    /\ valid = FALSE
    /\ keyedAlphabet = <<>>
    /\ keyedCipher = EmptyTable
    /\ trits = <<-1, -1, -1>>
    /\ found = -1

(* Delta_K library calls. *)

Encrypt ==
    /\ pc = "start"
    /\ \E p \in Plaintexts :
          /\ plaintext' = p
          /\ ciphertext' = encrypt(p)
    /\ pc' = "encrypt"
    /\ UNCHANGED <<key, decoded, valid, keyedAlphabet, keyedCipher, trits, found>>

EncryptKey ==
    /\ pc = "start"
    /\ \E p \in Plaintexts, k \in Keys :
          /\ keyValidation(k)
          /\ plaintext' = p
          /\ key' = k
          /\ ciphertext' = encrypt_key(p, k)
    /\ pc' = "encrypt_key"
    /\ UNCHANGED <<decoded, valid, keyedAlphabet, keyedCipher, trits, found>>

\* decrypt of what encrypt(plaintext) returned.
DecryptEncrypted ==
    /\ pc = "encrypt"
    /\ decoded' = decrypt(ciphertext)
    /\ pc' = "roundtrip"
    /\ UNCHANGED <<plaintext, key, ciphertext, valid, keyedAlphabet, keyedCipher,
                   trits, found>>

\* decrypt of a text the caller supplies.
Decrypt ==
    /\ pc = "start"
    /\ \E c \in Ciphertexts :
          /\ ciphertext' = c
          /\ decoded' = decrypt(c)
    /\ pc' = "decrypt"
    /\ UNCHANGED <<plaintext, key, valid, keyedAlphabet, keyedCipher, trits, found>>

KeyValidation ==
    /\ pc = "start"
    /\ \E k \in Keys :
          /\ key' = k
          /\ valid' = keyValidation(k)
    /\ pc' = "keyValidation"
    /\ UNCHANGED <<plaintext, ciphertext, decoded, keyedAlphabet, keyedCipher,
                   trits, found>>

AbcSearch ==
    /\ pc = "start"
    /\ \E a \in TritArgs, b \in TritArgs, c \in TritArgs :
          /\ trits' = <<a, b, c>>
          /\ found' = abcSearch(a, b, c)
    /\ pc' = "abcSearch"
    /\ UNCHANGED <<plaintext, key, ciphertext, decoded, valid, keyedAlphabet,
                   keyedCipher>>

(* cipher-encoder.cpp: calls of its helpers. *)

CeKeyValidation ==
    /\ pc = "start"
    /\ \E k \in Keys :
          /\ key' = k
          /\ valid' = ce_keyValidation(k)
    /\ pc' = "ce_keyValidation"
    /\ UNCHANGED <<plaintext, ciphertext, decoded, keyedAlphabet, keyedCipher,
                   trits, found>>

AlphabetWithKey ==
    /\ pc = "start"
    /\ \E k \in Keys :
          /\ key' = k
          /\ keyedAlphabet' = alphabetWithKey(k)
    /\ pc' = "alphabetWithKey"
    /\ UNCHANGED <<plaintext, ciphertext, decoded, valid, keyedCipher, trits, found>>

(* cipher-encoder.cpp: main().  std::cin >> key yields a non-empty token   *)
(* without whitespace, or, at the end of the input, leaves key as it was.  *)

KeyTokens == {k \in Keys : k # <<>>} \cup {key}

MainGetline ==
    /\ pc = "start"
    /\ \E p \in Plaintexts : plaintext' = p
    /\ pc' = "prompt"
    /\ UNCHANGED <<key, ciphertext, decoded, valid, keyedAlphabet, keyedCipher,
                   trits, found>>

MainKeyZero ==
    /\ pc = "prompt"
    /\ \E k \in KeyTokens :
          /\ k = Zero
          /\ key' = k
    /\ ciphertext' = ce_encrypt(plaintext, CIPHER_ALPHABET)
    /\ pc' = "exit"
    /\ UNCHANGED <<plaintext, decoded, valid, keyedAlphabet, keyedCipher, trits, found>>

MainKeyInvalid ==
    /\ pc = "prompt"
    /\ \E k \in KeyTokens :
          /\ k # Zero
          /\ ~ce_keyValidation(k)
          /\ key' = k
    /\ pc' = "prompt"
    /\ UNCHANGED <<plaintext, ciphertext, decoded, valid, keyedAlphabet, keyedCipher,
                   trits, found>>

MainKeyValid ==
    /\ pc = "prompt"
    /\ \E k \in KeyTokens :
          /\ k # Zero
          /\ ce_keyValidation(k)
          /\ key' = k
          /\ keyedAlphabet' = alphabetWithKey(k)
    /\ keyedCipher' = keyedCipherAlphabet(keyedAlphabet', EmptyTable)
    /\ ciphertext' = ce_encrypt(plaintext, keyedCipher')
    /\ pc' = "exit"
    /\ UNCHANGED <<plaintext, decoded, valid, trits, found>>

Next ==
    \/ Encrypt
    \/ EncryptKey
    \/ DecryptEncrypted
    \/ Decrypt
    \/ KeyValidation
    \/ AbcSearch
    \/ CeKeyValidation
    \/ AlphabetWithKey
    \/ MainGetline
    \/ MainKeyZero
    \/ MainKeyInvalid
    \/ MainKeyValid

Spec == Init /\ [][Next]_vars

-----------------------------------------------------------------------------
(* Vocabulary of the properties.                                           *)

AllAlpha(s) == \A n \in 1..Len(s) : isalpha(s[n])

NoLetters(s) == \A n \in 1..Len(s) : ~isalpha(s[n])

LettersAndSpaces(s) == \A n \in 1..Len(s) : isalpha(s[n]) \/ s[n] = 32

Upper(s) == [n \in 1..Len(s) |-> toupper(s[n])]

NoRepeat(s) ==
    \A m \in 1..Len(s), n \in 1..Len(s) : m # n => toupper(s[m]) # toupper(s[n])

ValidUniqueKey(k) == k # <<>> /\ AllAlpha(k) /\ NoRepeat(k)

Elems(s) == {s[n] : n \in 1..Len(s)}

Letters == 65..90

IsPermutationOfAZ(s) == Len(s) = 26 /\ Elems(s) = Letters

\* The letters that are not in the keyword, in ascending order.
Unused(k) ==
    LET used == Elems(Upper(k))
    IN  SelectSeq([n \in 1..26 |-> 64 + n], LAMBDA x : x \notin used)

PosIn(s, x) == CHOOSE n \in 1..Len(s) : s[n] = x

LetterIndex(c) == toupper(c) - 65

Row(i) == TRIT_ALPHABET[i + 1]

GlyphRun(t) == GLYPHS[t[1] + 1] \o GLYPHS[t[2] + 1] \o GLYPHS[t[3] + 1]

StaticRun(i) == GlyphRun(Row(i))

StaticPiece(c) ==
    IF isalpha(c) THEN StaticRun(LetterIndex(c))
    ELSE IF c = 32 THEN <<47>>
    ELSE <<c>>

\* The number of alphabetic characters before position n (from 1) of p.
AlphaBefore(p, n) == Cardinality({m \in 1..(n - 1) : isalpha(p[m])})

AdditiveRun(pl, kl) == GlyphRun([j \in 1..3 |-> (Row(pl)[j] + Row(kl)[j]) % 3])

AdditivePiece(p, k, n) ==
    IF isalpha(p[n])
    THEN AdditiveRun(LetterIndex(p[n]),
                     LetterIndex(k[(AlphaBefore(p, n) % Len(k)) + 1]))
    ELSE IF p[n] = 32 THEN <<47>>
    ELSE <<p[n]>>

NonLetters(p) == SelectSeq(p, LAMBDA c : ~isalpha(c))

\* The bytes of an encoder's output that are not glyph bytes.
AsciiOf(c) == SelectSeq(c, LAMBDA b : b < 128)

SlashSpaces(s) == [n \in 1..Len(s) |-> IF s[n] = 32 THEN 47 ELSE s[n]]

\* n is the first occurrence of its letter in keyword k.
FirstOcc(k, n) == \A m \in 1..(n - 1) : toupper(k[m]) # toupper(k[n])

\* The decoder as the specification words it: a run is decoded only when the
\* next three glyph-sized units are glyphs of a triple of the table.
RECURSIVE GracefulDecode(_, _)
GracefulDecode(c, i) ==
    IF ~(i < Len(c)) THEN <<>>
    ELSE LET g1 == glyphVal(substr(c, i, 3))
             g2 == IF i + 3 <= Len(c) THEN glyphVal(substr(c, i + 3, 3)) ELSE -1
             g3 == IF i + 6 <= Len(c) THEN glyphVal(substr(c, i + 6, 3)) ELSE -1
         IN  IF g1 # -1 /\ g2 # -1 /\ g3 # -1 /\ <<g1, g2, g3>> \in Elems(TRIT_ALPHABET)
             THEN <<65 + PosIn(TRIT_ALPHABET, <<g1, g2, g3>>) - 1>>
                      \o GracefulDecode(c, i + 9)
             ELSE <<c[i + 1]>> \o GracefulDecode(c, i + 1)

-----------------------------------------------------------------------------
(* The properties.                                                         *)

\* C1: decrypt(encrypt(s)) is s with its letters uppercased and its spaces
\* kept, for every s of letters and spaces.
C1_RoundTrip ==
    (pc = "roundtrip" /\ LettersAndSpaces(plaintext))
        => decoded = [thrown |-> FALSE, value |-> Upper(plaintext)]

\* C2: every trit of TRIT_ALPHABET is 0, 1 or 2, its 26 rows are pairwise
\* distinct, and abcSearch of row i returns i.
C2_CodeTableBijection ==
    /\ Len(TRIT_ALPHABET) = 26
    /\ \A i \in 0..25 : \A j \in 1..3 : Row(i)[j] \in {0, 1, 2}
    /\ \A i \in 0..25 : \A k \in 0..25 : i # k => Row(i) # Row(k)
    /\ pc = "abcSearch" => \A i \in 0..25 : trits = Row(i) => found = i

C2_Witness == pc = "abcSearch" /\ trits = <<2, 2, 2>> /\ found = 25

\* C3: for a non-empty alphabetic keyword without a repeated letter,
\* alphabetWithKey returns a permutation of A..Z of length 26: the uppercased
\* keyword, then the letters not in it in ascending order.
C3_KeywordOrdering ==
    (pc \in {"alphabetWithKey", "exit"} /\ ValidUniqueKey(key))
        => /\ IsPermutationOfAZ(keyedAlphabet)
           /\ SubSeq(keyedAlphabet, 1, Len(key)) = Upper(key)
           /\ SubSeq(keyedAlphabet, Len(key) + 1, 26) = Unused(key)

C3_Witness ==
    /\ pc = "alphabetWithKey"
    /\ key = <<99, 97>>
    /\ SubSeq(keyedAlphabet, 1, 4) = <<67, 65, 66, 68>>

\* C4: each keyValidation rejects the empty key; the permutation one accepts
\* exactly the non-empty alphabetic keys without a repeated letter, the
\* additive one exactly the non-empty alphabetic keys.
C4_KeyValidation ==
    /\ pc = "ce_keyValidation" => (valid <=> ValidUniqueKey(key))
    /\ pc = "keyValidation" => (valid <=> (key # <<>> /\ AllAlpha(key)))

\* C5: encrypt(plaintext, key) writes the k-th letter of the plaintext
\* (letters only are counted) as the glyphs of the trit-wise sum mod 3 of its
\* row and the row of key[k mod len(key)]; "AAAA" under "BC" gives runs 1 = 3,
\* 2 = 4 and 1 # 2.
C5_AdditiveCycling ==
    pc = "encrypt_key"
        => /\ ciphertext =
                  Concat([n \in 1..Len(plaintext) |-> AdditivePiece(plaintext, key, n)])
           /\ (plaintext = AAAA /\ key = BC)
                  => /\ SubSeq(ciphertext, 1, 9) = SubSeq(ciphertext, 19, 27)
                     /\ SubSeq(ciphertext, 10, 18) = SubSeq(ciphertext, 28, 36)
                     /\ SubSeq(ciphertext, 1, 9) # SubSeq(ciphertext, 10, 18)

C5_Witness ==
    /\ pc = "encrypt_key"
    /\ plaintext = <<65, 32, 98>>
    /\ key = <<97, 66>>
    /\ ciphertext = AdditiveRun(0, 0) \o <<47>> \o AdditiveRun(1, 1)

\* C6: encrypt(plaintext) is the concatenation, character by character, of
\* the three glyphs of a letter's row, '/' for a space and the character
\* itself otherwise.
C6_StaticMapping ==
    pc \in {"encrypt", "roundtrip"}
        => /\ ciphertext = Concat([n \in 1..Len(plaintext) |-> StaticPiece(plaintext[n])])
           /\ plaintext = <<>> => ciphertext = <<>>
           /\ (Len(plaintext) = 1 /\ NoLetters(plaintext) /\ plaintext # <<32>>)
                  => ciphertext = plaintext
           /\ plaintext = HI
                  => ciphertext = StaticRun(7) \o StaticRun(8)
           /\ plaintext = HI_THERE
                  => ciphertext = StaticRun(7) \o StaticRun(8) \o <<47>> \o StaticRun(19)
                         \o StaticRun(7) \o StaticRun(4) \o StaticRun(17) \o StaticRun(4)

C6_Witness == pc = "encrypt" /\ plaintext = HI_THERE /\ Len(ciphertext) = 64

\* C7: for a valid key, keyedCipherAlphabet gives the letter at position i of
\* the keyed ordering the static run CIPHER_ALPHABET[i]; the 26 entries are
\* written and pairwise distinct; encrypt writes each letter as the static run
\* of its position in the keyed ordering.
C7_KeyedTable ==
    (pc = "exit" /\ ValidUniqueKey(key))
        => /\ \A i \in 0..25 :
                  keyedCipher[keyedAlphabet[i + 1] - 65 + 1] = CIPHER_ALPHABET[i + 1]
           /\ \A a \in 1..26 : \A b \in 1..26 :
                  keyedCipher[a] # <<>> /\ (a # b => keyedCipher[a] # keyedCipher[b])
           /\ ciphertext =
                  Concat([n \in 1..Len(plaintext) |->
                             IF isalpha(plaintext[n])
                             THEN CIPHER_ALPHABET[PosIn(keyedAlphabet, toupper(plaintext[n]))]
                             ELSE <<plaintext[n]>>])

C7_Witness ==
    /\ pc = "exit"
    /\ key = <<99, 97>>
    /\ plaintext = <<65, 98>>
    /\ ciphertext = CIPHER_ALPHABET[2] \o CIPHER_ALPHABET[3]

\* C8, as claimed: each of the three encoders writes one '/' for a space and
\* copies every other non-letter, so that they agree on a plaintext without
\* letters.
C8_IdenticalTraversal ==
    pc \in {"encrypt", "encrypt_key", "exit"}
        => /\ AsciiOf(ciphertext) = SlashSpaces(NonLetters(plaintext))
           /\ NoLetters(plaintext) => ciphertext = SlashSpaces(plaintext)

\* C8, amended: the static and the additive encoder write one '/' for a space
\* and copy every other non-letter; the keyed-permutation encoder copies every
\* non-letter, the space too.
C8_Traversal ==
    /\ pc \in {"encrypt", "encrypt_key"}
           => /\ AsciiOf(ciphertext) = SlashSpaces(NonLetters(plaintext))
              /\ NoLetters(plaintext) => ciphertext = SlashSpaces(plaintext)
    /\ pc = "exit"
           => /\ AsciiOf(ciphertext) = NonLetters(plaintext)
              /\ NoLetters(plaintext) => ciphertext = plaintext

C8_Witness ==
    /\ pc = "exit"
    /\ ValidUniqueKey(key)
    /\ plaintext = <<32, 49>>
    /\ ciphertext = <<32, 49>>

\* C9: decrypt never fails, decodes a run only when three glyphs of a triple
\* of the table follow and copies the single current character otherwise, so
\* that every character it returns is one of its input or a letter A..Z.
C9_GracefulDegradation ==
    pc \in {"decrypt", "roundtrip"}
        => /\ ~decoded.thrown
           /\ Elems(decoded.value) \subseteq (Elems(ciphertext) \cup Letters)
           /\ decoded.value = GracefulDecode(ciphertext, 0)

\* C10, as claimed: for every alphabetic keyword, repeated letters or not,
\* alphabetWithKey returns a permutation of A..Z of length 26 with each
\* keyword letter at the position of its first occurrence.
C10_DuplicateAbsorption ==
    (pc = "alphabetWithKey" /\ AllAlpha(key))
        => /\ IsPermutationOfAZ(keyedAlphabet)
           /\ \A n \in 1..Len(key) :
                  FirstOcc(key, n)
                      => keyedAlphabet[Cardinality({m \in 1..n : FirstOcc(key, m)})]
                             = toupper(key[n])

\* C10, amended: for every alphabetic keyword alphabetWithKey returns the
\* whole uppercased keyword, repeated letters kept, then the letters not in
\* it in ascending order: len(key) + 26 - (distinct letters of key)
\* characters, a permutation of A..Z exactly when no letter repeats.
C10_KeywordKept ==
    (pc = "alphabetWithKey" /\ AllAlpha(key))
        => /\ keyedAlphabet = Upper(key) \o Unused(key)
           /\ Len(keyedAlphabet) = Len(key) + 26 - Cardinality(Elems(Upper(key)))
           /\ IsPermutationOfAZ(keyedAlphabet) <=> NoRepeat(key)

C10_Witness ==
    /\ pc = "alphabetWithKey"
    /\ key = aabb
    /\ Len(keyedAlphabet) = 28
    /\ SubSeq(keyedAlphabet, 1, 5) = <<65, 65, 66, 66, 67>>

=============================================================================
